---- MODULE Spec2Model ----
(***************************************************************************)
(* A model of hangman1.py: the HangmanGame session (answer, display_word,  *)
(* guessed_letters, lives) and the loop of HangmanGame.play.               *)
(*                                                                         *)
(* A Python string is a sequence of characters; a character is a TLA+      *)
(* string.  The characters the model knows are listed below with the       *)
(* Python str methods (lower, isalpha, strip) tabulated on them.           *)
(***************************************************************************)
EXTENDS Integers, Sequences, FiniteSets, TLC

VARIABLES mode, answer, display_word, guessed_letters, lives, max_lives,
          pc, input, out, timed_out, submitted, outcomes,
          words, brown_words, error, turns,
          os_name, time, end, typed, last_shown, keys, tty_line,
          rpc, result, returns, shown, dup, entered

\* the session and the position of play
gamevars == <<mode, answer, display_word, guessed_letters, lives, max_lives,
              pc, input, out, timed_out, submitted, outcomes>>

\* the pools the session draws from, the exception construction ended
\* with, and the number of turns taken that were not invalid input
poolvars == <<words, brown_words, error>>

\* one call of timed_input: the platform, the clock (time elapsed since the
\* call began, so that end is the timeout), the locals of the reader (typed,
\* last_shown), the keys waiting in the Windows console (keys), the line
\* being edited in the POSIX terminal (tty_line), the reader's position,
\* what it returned and how often, the last line rendered in the call
\* (shown), whether a render repeated it (dup), and the keys the player
\* pressed during the call, edited (entered)
readervars == <<os_name, time, end, typed, last_shown, keys, tty_line,
                rpc, result, returns, shown, dup, entered>>

vars == <<gamevars, poolvars, turns, readervars>>

\* no call of timed_input is modelled step by step
ReaderIdle ==
    /\ os_name = "posix"
    /\ time = 0
    /\ end = 0
    /\ typed = <<>>
    /\ last_shown = -1
    /\ keys = <<>>
    /\ tty_line = <<>>
    /\ rpc = "idle"
    /\ result = <<"idle">>
    /\ returns = 0
    /\ shown = <<>>
    /\ dup = FALSE
    /\ entered = <<>>

(***************************************************************************)
(* Bounds of the model.                                                    *)
(***************************************************************************)
\* the largest max_lives a session is constructed with
MaxLives == 2
\* the longest line the player commits at one prompt
MaxLineLen == 2

(***************************************************************************)
(* Program constants.                                                      *)
(***************************************************************************)
MAX_WORD_LENGTH == 8
MinPhraseLength == 3
MaxPhraseLength == 5

(***************************************************************************)
(* Characters.  DSC is U+2102 (DOUBLE-STRUCK CAPITAL C): alphabetic,       *)
(* uppercase, and without a lowercase mapping.  DotI is U+0130 (LATIN      *)
(* CAPITAL LETTER I WITH DOT ABOVE): its lowercasing is the two characters *)
(* "i" and U+0307 (CombDot), the second of which is not alphabetic.        *)
(***************************************************************************)
DSC == "U+2102"
DotI == "U+0130"
CombDot == "U+0307"
PLACEHOLDER == "_"

LowercaseChars == {"a", "b", "i"}
UppercaseChars == {"A", "B", DSC, DotI}
AlphaChars == LowercaseChars \cup UppercaseChars
SpaceChars == {" "}
OtherChars == {"1", PLACEHOLDER, CombDot}

\* str.lower() of a one-character string
LowerChar(c) ==
    CASE c = "A" -> <<"a">>
      [] c = "B" -> <<"b">>
      [] c = DotI -> <<"i", CombDot>>
      [] OTHER -> <<c>>

\* str.lower()
RECURSIVE lower(_)
lower(s) == IF s = <<>> THEN <<>> ELSE LowerChar(Head(s)) \o lower(Tail(s))

\* str.isalpha(): every character is alphabetic and there is at least one
isalpha(s) == Len(s) > 0 /\ \A i \in 1..Len(s) : s[i] \in AlphaChars

\* str.lstrip() and str.rstrip() on whitespace
RECURSIVE lstrip(_)
lstrip(s) ==
    IF s # <<>> /\ Head(s) \in SpaceChars THEN lstrip(Tail(s)) ELSE s

RECURSIVE rstrip(_)
rstrip(s) ==
    IF s # <<>> /\ s[Len(s)] \in SpaceChars
    THEN rstrip(SubSeq(s, 1, Len(s) - 1))
    ELSE s

\* str.strip()
strip(s) == rstrip(lstrip(s))

\* x in s, for a one-character x
RECURSIVE contains(_, _)
contains(s, c) ==
    IF s = <<>> THEN FALSE
    ELSE IF Head(s) = c THEN TRUE ELSE contains(Tail(s), c)

\* " ".join(parts) for a sequence of strings
RECURSIVE join(_)
join(parts) ==
    IF parts = <<>> THEN <<>>
    ELSE IF Len(parts) = 1 THEN parts[1]
    ELSE parts[1] \o <<" ">> \o join(Tail(parts))

\* all sequences over S of length n, and of length at most n
RECURSIVE SeqsOfLen(_, _)
SeqsOfLen(S, n) ==
    IF n = 0 THEN {<<>>}
    ELSE {Append(s, x) : s \in SeqsOfLen(S, n - 1), x \in S}

SeqsUpTo(S, n) == UNION {SeqsOfLen(S, k) : k \in 0..n}

(***************************************************************************)
(* The corpora and load_word_lists.                                        *)
(***************************************************************************)
\* nltk_words.words(): entries as the corpus holds them
NltkWords ==
    { <<"a", "b">>, <<"A", "b", "a">>, <<"b">>, <<"a", "1">>,
      <<"a", "b", "a", "b", "a", "b", "a", "b", "a">> }

\* brown.words()
BrownCorpus == { <<"a">>, <<"B", "a">>, <<"1">> }

\* a faulty variant: the length test is left out
WORDS_LIST_unfiltered == {lower(w) : w \in {x \in NltkWords : isalpha(x)}}

WORDS_LIST ==
    {lower(w) : w \in {x \in NltkWords : isalpha(x) /\ Len(x) <= MAX_WORD_LENGTH}}

BROWN_WORDS == {lower(w) : w \in {x \in BrownCorpus : isalpha(x)}}

(***************************************************************************)
(* HangmanGame: construction.                                              *)
(***************************************************************************)
Modes == {"basic", "intermediate"}

\* a faulty variant: the phrase length is drawn from 3..6
choose_from_longer(m, ws, bs) ==
    IF m = "basic"
    THEN {lower(w) : w \in ws}
    ELSE {lower(join(toks)) :
            toks \in UNION {SeqsOfLen(bs, n) :
                              n \in MinPhraseLength..(MaxPhraseLength + 1)}}

\* the values _choose_word can return in a mode, drawing from self.words
\* and self.brown_words; no value when the pool it draws from is empty
choose_from(m, ws, bs) ==
    IF m = "basic"
    THEN {lower(w) : w \in ws}
    ELSE {lower(join(toks)) :
            toks \in UNION {SeqsOfLen(bs, n) :
                              n \in MinPhraseLength..MaxPhraseLength}}

\* with the pools load_word_lists built
choose_word(m) == choose_from(m, WORDS_LIST, BROWN_WORDS)

\* a faulty variant: every position is hidden, separators too
init_display_hides_all(ans) == [i \in 1..Len(ans) |-> PLACEHOLDER]

init_display(ans) ==
    [i \in 1..Len(ans) |-> IF isalpha(<<ans[i]>>) THEN PLACEHOLDER ELSE ans[i]]

\* the loop of _update_display: positions 1..k of the answer have been visited
RECURSIVE update_loop(_, _, _, _)
update_loop(new_display, ans, letter, k) ==
    IF k = 0 THEN new_display
    ELSE LET prev == update_loop(new_display, ans, letter, k - 1)
         IN  IF ans[k] = letter THEN [prev EXCEPT ![k] = letter] ELSE prev

\* a faulty variant: the loop of _update_display stops at the first occurrence
update_first_only(disp, ans, letter) ==
    IF \E i \in 1..Len(ans) : ans[i] = letter
    THEN LET f == CHOOSE i \in 1..Len(ans) :
                    /\ ans[i] = letter
                    /\ \A j \in 1..(i - 1) : ans[j] # letter
         IN  [disp EXCEPT ![f] = letter]
    ELSE disp

\* a faulty variant: the mask is rebuilt from the answer, forgetting earlier reveals
update_rebuilds_mask(disp, ans, letter) ==
    [i \in 1..Len(ans) |->
        IF ans[i] = letter THEN letter
        ELSE IF ans[i] \in AlphaChars THEN PLACEHOLDER ELSE ans[i]]

update_display(disp, ans, letter) == update_loop(disp, ans, letter, Len(ans))

\* a faulty variant: won as soon as some position is not a placeholder
is_won_any_revealed == \E i \in 1..Len(display_word) : display_word[i] # PLACEHOLDER

is_won == ~contains(display_word, PLACEHOLDER)

\* a faulty variant: lost only below zero
is_lost_below_zero == lives < 0

is_lost == lives <= 0

(***************************************************************************)
(* The player at one prompt, and timed_input.                              *)
(***************************************************************************)
TypedChars == {"a", "b", "A", " ", "1", DSC, DotI}

\* what the player does during one call of timed_input: lets the deadline
\* pass (Deadline), or commits a line with an end-of-line before it; Idle
\* when no call is pending.  timed_out records whether the last call
\* returned None.
Deadline == <<"deadline">>
Idle == <<"idle">>
None == <<"None">>

Lines == SeqsUpTo(TypedChars, MaxLineLen) \cup { <<" ", "a", " ">>, <<" ", "A", " ">> }

\* a faulty variant: the line is returned untrimmed
timed_input_untrimmed(act) == IF act = Deadline THEN None ELSE act

timed_input(act) == IF act = Deadline THEN None ELSE strip(act)

\* Python truth value of "not guess"
not_(guess) == guess = None \/ guess = <<>>

Init ==
    /\ mode \in Modes
    /\ words = WORDS_LIST
    /\ brown_words = BROWN_WORDS
    /\ error = "none"
    /\ turns = 0
    /\ ReaderIdle
    /\ answer \in choose_word(mode)
    /\ max_lives \in {-1} \cup (0..MaxLives)
    /\ lives = max_lives
    /\ guessed_letters = {}
    /\ display_word = init_display(answer)
    /\ pc = "loop"
    /\ input = Idle
    /\ out = "welcome"
    /\ timed_out = FALSE
    /\ submitted = {}
    /\ outcomes = 0

(***************************************************************************)
(* HangmanGame.play.                                                       *)
(***************************************************************************)
\* a faulty variant: "while not lost or not won"
Prompt_guard_or ==
    /\ pc = "loop"
    /\ ~is_lost \/ ~is_won
    /\ \E act \in Lines \cup {Deadline} :
         input' = act /\ timed_out' = (timed_input(act) = None)
    /\ pc' = "got"
    /\ out' = "prompt"
    /\ UNCHANGED <<mode, answer, display_word, guessed_letters, lives,
                   max_lives, submitted, outcomes, turns>>
    /\ UNCHANGED poolvars
    /\ UNCHANGED readervars

\* the loop test passes, the state is printed and timed_input is called; the
\* player acts and timed_input returns
Prompt ==
    /\ pc = "loop"
    /\ ~is_lost /\ ~is_won
    /\ \E act \in Lines \cup {Deadline} :
         input' = act /\ timed_out' = (timed_input(act) = None)
    /\ pc' = "got"
    /\ out' = "prompt"
    /\ UNCHANGED <<mode, answer, display_word, guessed_letters, lives,
                   max_lives, submitted, outcomes, turns>>
    /\ UNCHANGED poolvars
    /\ UNCHANGED readervars

\* a faulty variant: a timeout costs nothing
TimeoutBranch_free ==
    /\ out' = "time_up"
    /\ UNCHANGED <<lives, guessed_letters, display_word>>

\* if not guess: "Time is up! You lost a life."
TimeoutBranch ==
    /\ out' = "time_up"
    /\ lives' = lives - 1
    /\ UNCHANGED <<guessed_letters, display_word>>

\* "Please enter a single letter."
InvalidBranch ==
    /\ out' = "invalid"
    /\ UNCHANGED <<lives, guessed_letters, display_word>>

\* a faulty variant: a repeat costs nothing
RepeatBranch_free ==
    /\ out' = "repeat"
    /\ UNCHANGED <<lives, guessed_letters, display_word>>

\* "You've already guessed that letter. -1 life"
RepeatBranch ==
    /\ out' = "repeat"
    /\ lives' = lives - 1
    /\ UNCHANGED <<guessed_letters, display_word>>

\* a faulty variant: a correct guess costs a life too
NewGuessBranch_always_penalised(g) ==
    /\ guessed_letters' = guessed_letters \cup {g}
    /\ lives' = lives - 1
    /\ IF contains(answer, g)
       THEN /\ display_word' = update_display(display_word, answer, g)
            /\ out' = "correct"
       ELSE /\ display_word' = display_word
            /\ out' = "wrong"

\* a faulty variant: only a correct guess is recorded
NewGuessBranch_records_correct_only(g) ==
    IF contains(answer, g)
    THEN /\ guessed_letters' = guessed_letters \cup {g}
         /\ display_word' = update_display(display_word, answer, g)
         /\ out' = "correct"
         /\ UNCHANGED lives
    ELSE /\ lives' = lives - 1
         /\ out' = "wrong"
         /\ UNCHANGED <<guessed_letters, display_word>>

\* guessed_letters.add(guess), then the answer test
NewGuessBranch(g) ==
    /\ guessed_letters' = guessed_letters \cup {g}
    /\ IF contains(answer, g)
       THEN /\ display_word' = update_display(display_word, answer, g)
            /\ out' = "correct"
            /\ UNCHANGED lives
       ELSE /\ lives' = lives - 1
            /\ out' = "wrong"
            /\ UNCHANGED display_word

\* The player's act as the properties below classify it: the text of a
\* committed line, trimmed and lowercased, and whether it is one letter.
Text(act) == lower(strip(act))
OneLetter(act) == Len(Text(act)) = 1 /\ Text(act)[1] \in AlphaChars

\* history: the letters submitted so far as one-letter guesses
Submit(act) ==
    submitted' = IF act # Deadline /\ OneLetter(act)
                 THEN submitted \cup {Text(act)[1]}
                 ELSE submitted

\* history: the turns that were a timeout or a one-letter guess
Count(act) ==
    turns' = IF act = Deadline \/ OneLetter(act) THEN turns + 1 ELSE turns

\* the turn ends and the loop test is next
Continue ==
    /\ pc' = "loop"
    /\ UNCHANGED error

\* guess.lower() where guess has no such method: the exception leaves play
Raise(e) ==
    /\ error' = e
    /\ pc' = "raised"
    /\ UNCHANGED <<lives, guessed_letters, display_word, out>>

\* the rest of the loop body, from the return of timed_input, when the
\* player's act was act
Turn(act) ==
    /\ pc = "got"
    /\ LET guess == timed_input(act)
       IN  IF not_(guess)
           THEN TimeoutBranch /\ Continue
           ELSE IF guess = None
           THEN Raise("AttributeError")
           ELSE LET g == lower(guess)
                IN  /\ IF Len(g) # 1 \/ ~isalpha(g)
                       THEN InvalidBranch
                       ELSE IF g[1] \in guessed_letters
                            THEN RepeatBranch
                            ELSE NewGuessBranch(g[1])
                    /\ Continue
    /\ Submit(act)
    /\ Count(act)
    /\ input' = Idle
    /\ UNCHANGED <<mode, answer, max_lives, timed_out, outcomes>>
    /\ UNCHANGED <<words, brown_words>>
    /\ UNCHANGED readervars

Handle == Turn(input)

\* the loop test fails; the outcome message is printed and play returns
Finish ==
    /\ pc = "loop"
    /\ is_lost \/ is_won
    /\ out' = IF is_won THEN "congratulations" ELSE "game_over"
    /\ outcomes' = outcomes + 1
    /\ pc' = "done"
    /\ UNCHANGED <<mode, answer, display_word, guessed_letters, lives,
                   max_lives, input, timed_out, submitted, turns>>
    /\ UNCHANGED poolvars
    /\ UNCHANGED readervars

Next == Prompt \/ Handle \/ Finish

Spec == Init /\ [][Next]_vars

(***************************************************************************)
(* _update_display on its own: any answer, any mask of the answer's        *)
(* length, any letter of the answer.                                       *)
(***************************************************************************)
\* the longest answer given to _update_display on its own
MaxAnswerLen == 3

MaskChars == {PLACEHOLDER, "a", "b", " "}

InitUpdate ==
    /\ mode = "basic"
    /\ words = WORDS_LIST
    /\ brown_words = BROWN_WORDS
    /\ error = "none"
    /\ turns = 0
    /\ ReaderIdle
    /\ answer \in SeqsUpTo({"a", "b", " "}, MaxAnswerLen)
    /\ display_word \in SeqsOfLen(MaskChars, Len(answer))
    /\ input \in {<<l>> : l \in {x \in {"a", "b"} : contains(answer, x)}}
    /\ guessed_letters = {}
    /\ max_lives = 0
    /\ lives = 0
    /\ pc = "call"
    /\ out = "welcome"
    /\ timed_out = FALSE
    /\ submitted = {}
    /\ outcomes = 0

CallUpdate ==
    /\ pc = "call"
    /\ display_word' = update_display(display_word, answer, input[1])
    /\ pc' = "ret"
    /\ UNCHANGED <<mode, answer, guessed_letters, lives, max_lives, input,
                   out, timed_out, submitted, outcomes, turns>>
    /\ UNCHANGED poolvars
    /\ UNCHANGED readervars

NextUpdate == CallUpdate

SpecUpdate == InitUpdate /\ [][NextUpdate]_vars

(***************************************************************************)
(* Properties.                                                             *)
(***************************************************************************)
Occurs(l, s) == \E i \in 1..Len(s) : s[i] = l
NumPlaceholders(s) == Cardinality({i \in 1..Len(s) : s[i] = PLACEHOLDER})
Committed == pc = "got" /\ input # Deadline

\* C1: in every reachable state display_word has the length of answer, a
\* position shows the answer's character iff that character is not
\* alphabetic or is in guessed_letters, and every other position is '_'.
C1_MaskMatchesGuesses ==
    /\ Len(display_word) = Len(answer)
    /\ \A i \in 1..Len(answer) :
         /\ (display_word[i] = answer[i])
              <=> (answer[i] \notin AlphaChars \/ answer[i] \in guessed_letters)
         /\ display_word[i] # answer[i] => display_word[i] = PLACEHOLDER

C1_Witness ==
    /\ pc = "loop" /\ out = "correct"
    /\ \E i, j \in 1..Len(answer) :
         /\ i # j /\ answer[i] = answer[j] /\ answer[i] \in guessed_letters
         /\ display_word[i] = answer[i] /\ display_word[j] = answer[j]
    /\ \E k \in 1..Len(answer) :
         answer[k] \in AlphaChars /\ display_word[k] = PLACEHOLDER
    /\ \E k \in 1..Len(answer) : answer[k] = " " /\ display_word[k] = " "

\* C2: _update_display with a letter L of the answer sets every position
\* where the answer holds L to L and leaves every other position of the
\* mask as it was.
C2_RevealsAllAndOnly ==
    [][pc = "call" =>
         /\ Len(display_word') = Len(display_word)
         /\ \A i \in 1..Len(answer) :
              display_word'[i] =
                 IF answer[i] = input[1] THEN input[1] ELSE display_word[i]]_vars

C2_Witness ==
    /\ pc = "ret"
    /\ \E i, j \in 1..Len(answer) :
         /\ i < j /\ answer[i] = input[1] /\ answer[j] = input[1]
         /\ display_word[i] = input[1] /\ display_word[j] = input[1]
    /\ \E k \in 1..Len(answer) :
         /\ answer[k] \in AlphaChars /\ answer[k] # input[1]
         /\ display_word[k] \notin {PLACEHOLDER, answer[k]}

\* C3: a committed line whose trimmed, lowercased text is not exactly one
\* alphabetic character (the empty line included) leaves lives,
\* guessed_letters and display_word unchanged, and the player is prompted
\* again.
C3_InvalidNeverMutates ==
    [][(Committed /\ ~OneLetter(input)) =>
         /\ UNCHANGED <<lives, guessed_letters, display_word>>
         /\ pc' = "loop" /\ lives' > 0 /\ NumPlaceholders(display_word') > 0]_vars

\* C4: guessing a letter that is already in guessed_letters costs exactly
\* one life and leaves display_word and guessed_letters unchanged.
C4_RepeatCostsOneLife ==
    [][(Committed /\ OneLetter(input) /\ Text(input)[1] \in guessed_letters) =>
         /\ lives' = lives - 1
         /\ UNCHANGED <<display_word, guessed_letters>>]_vars

C4_Witness ==
    /\ pc = "loop" /\ out = "repeat" /\ ~timed_out
    /\ \E l \in guessed_letters : Occurs(l, answer)
    /\ \E l \in guessed_letters : ~Occurs(l, answer)
    /\ lives = max_lives - 2

\* C5: a turn in which timed_input reports a timeout costs exactly one life
\* and leaves guessed_letters and display_word unchanged.
C5_TimeoutCostsOneLife ==
    [][(pc = "got" /\ input = Deadline) =>
         /\ lives' = lives - 1
         /\ UNCHANGED <<guessed_letters, display_word>>]_vars

C5_Witness ==
    /\ pc = "loop" /\ timed_out /\ out = "time_up"
    /\ lives = max_lives - 1 /\ lives > 0
    /\ guessed_letters = {}

\* C6: a first guess of a letter L adds L to guessed_letters; if L is not in
\* the answer it costs exactly one life and leaves display_word unchanged;
\* if L is in the answer it leaves lives unchanged.
C6_FirstGuess ==
    [][(Committed /\ OneLetter(input) /\ Text(input)[1] \notin guessed_letters) =>
         LET L == Text(input)[1]
         IN  /\ guessed_letters' = guessed_letters \cup {L}
             /\ ~Occurs(L, answer) =>
                  lives' = lives - 1 /\ display_word' = display_word
             /\ Occurs(L, answer) => lives' = lives]_vars

C6_Witness ==
    /\ pc = "loop" /\ out = "wrong" /\ ~timed_out
    /\ \E l \in guessed_letters : Occurs(l, answer)
    /\ \E l \in guessed_letters : ~Occurs(l, answer)
    /\ lives = max_lives - 1

\* C7: with max_lives >= 0 every reachable state has 0 <= lives <= max_lives,
\* and no step increases lives.
C7_LivesBounded ==
    /\ [](max_lives >= 0 => (0 <= lives /\ lives <= max_lives))
    /\ [][lives' <= lives]_vars

C7_Witness ==
    /\ pc = "done" /\ out = "game_over"
    /\ lives = 0 /\ max_lives >= 2

\* C8 as stated: guessed_letters starts empty, never loses an element, holds
\* only single lowercase letters, and holds exactly the letters submitted as
\* valid guesses; timeouts, invalid inputs and repeats add nothing.
C8_Original ==
    /\ guessed_letters = {}
    /\ [](/\ guessed_letters \subseteq LowercaseChars
          /\ guessed_letters = submitted)
    /\ [][/\ guessed_letters \subseteq guessed_letters'
          /\ (pc = "got" /\ (input = Deadline \/ ~OneLetter(input)
                               \/ Text(input)[1] \in guessed_letters))
               => guessed_letters' = guessed_letters
          /\ pc # "got" => guessed_letters' = guessed_letters]_vars

\* C8 as amended: every element is a single alphabetic character that
\* lowercasing leaves unchanged (a character without a lowercase form, such
\* as U+2102, is a member as typed); the rest as stated.
C8_GuessedLettersAppendOnly ==
    /\ guessed_letters = {}
    /\ [](/\ guessed_letters \subseteq {c \in AlphaChars : LowerChar(c) = <<c>>}
          /\ guessed_letters = submitted)
    /\ [][/\ guessed_letters \subseteq guessed_letters'
          /\ (pc = "got" /\ (input = Deadline \/ ~OneLetter(input)
                               \/ Text(input)[1] \in guessed_letters))
               => guessed_letters' = guessed_letters
          /\ pc # "got" => guessed_letters' = guessed_letters]_vars

C8_Witness ==
    /\ pc = "loop" /\ out = "repeat"
    /\ guessed_letters = {"a", DSC} /\ submitted = {"a", DSC}

\* C9: is_won() is true iff display_word has no placeholder and is_lost()
\* iff lives <= 0; the calls change nothing; a session whose lives are 0
\* before any guess is lost at once.
C9_WonLostArePure ==
    /\ [](/\ is_won <=> NumPlaceholders(display_word) = 0
          /\ is_lost <=> lives <= 0
          /\ (lives = 0 /\ out = "welcome") => (is_lost /\ ~ENABLED Prompt))
    /\ [][pc = "loop" =>
            UNCHANGED <<answer, display_word, guessed_letters, lives, max_lives>>]_vars

C9_Witness ==
    /\ pc = "done" /\ out = "game_over"
    /\ max_lives = 0 /\ lives = 0 /\ guessed_letters = {}
    /\ is_lost /\ ~is_won

\* C10: play prompts only while lives > 0 and the mask has a placeholder;
\* once the session is won or lost no prompt is issued and lives,
\* guessed_letters and display_word never change; exactly one outcome
\* message is printed, the win message iff the mask has no placeholder.
Terminal == lives <= 0 \/ NumPlaceholders(display_word) = 0

C10_TerminalStates ==
    /\ [](/\ pc = "got" => ~Terminal
          /\ outcomes <= 1
          /\ outcomes = 1 <=> pc = "done"
          /\ pc = "done" =>
               /\ Terminal
               /\ out = IF NumPlaceholders(display_word) = 0
                        THEN "congratulations" ELSE "game_over")
    /\ [][Terminal =>
            /\ pc' # "got"
            /\ Terminal'
            /\ UNCHANGED <<lives, guessed_letters, display_word>>]_vars

C10_Witness ==
    /\ pc = "done" /\ out = "congratulations" /\ outcomes = 1
    /\ NumPlaceholders(display_word) = 0
    /\ 0 < lives /\ lives < max_lives

(***************************************************************************)
(* _init_display on its own: any answer.                                   *)
(***************************************************************************)
AnswerChars == {"a", "b", "A", " ", "1", PLACEHOLDER, CombDot}

InitInitDisplay ==
    /\ mode = "basic"
    /\ words = WORDS_LIST
    /\ brown_words = BROWN_WORDS
    /\ error = "none"
    /\ turns = 0
    /\ ReaderIdle
    /\ answer \in SeqsUpTo(AnswerChars, MaxAnswerLen)
    /\ display_word = <<>>
    /\ input = Idle
    /\ guessed_letters = {}
    /\ max_lives = 0
    /\ lives = 0
    /\ pc = "call_init_display"
    /\ out = "welcome"
    /\ timed_out = FALSE
    /\ submitted = {}
    /\ outcomes = 0

CallInitDisplay ==
    /\ pc = "call_init_display"
    /\ display_word' = init_display(answer)
    /\ pc' = "ret_init_display"
    /\ UNCHANGED <<mode, answer, guessed_letters, lives, max_lives, input,
                   out, timed_out, submitted, outcomes, turns>>
    /\ UNCHANGED poolvars
    /\ UNCHANGED readervars

NextInitDisplay == CallInitDisplay

SpecInitDisplay == InitInitDisplay /\ [][NextInitDisplay]_vars

\* C11: the initial mask has '_' at every alphabetic position of the answer
\* and the answer's own character at every other position; no letter is
\* revealed.
C11_InitialMask ==
    pc = "ret_init_display" =>
        /\ Len(display_word) = Len(answer)
        /\ \A i \in 1..Len(answer) :
             /\ answer[i] \in AlphaChars => display_word[i] = PLACEHOLDER
             /\ answer[i] \notin AlphaChars => display_word[i] = answer[i]
        /\ \A i \in 1..Len(display_word) : display_word[i] \notin AlphaChars

C11_Witness ==
    /\ pc = "ret_init_display"
    /\ Len(answer) = 3
    /\ answer[1] \in AlphaChars /\ display_word[1] = PLACEHOLDER
    /\ answer[2] = " " /\ display_word[2] = " "
    /\ answer[3] \in AlphaChars /\ display_word[3] = PLACEHOLDER

\* The letter an uppercase letter stands for: its simple lowercase mapping
\* in the Unicode character database (U+0130 maps to "i"; U+2102 has none).
SimpleLower(u) ==
    CASE u = "A" -> {"a"}
      [] u = "B" -> {"b"}
      [] u = DotI -> {"i"}
      [] OTHER -> {}

\* line ln commits letter l as an uppercase letter or between spaces
Dressed(ln, l) ==
    /\ ln # <<l>>
    /\ Len(strip(ln)) = 1
    /\ strip(ln)[1] = l \/ l \in SimpleLower(strip(ln)[1])

\* C12 as stated: a letter committed in uppercase or between spaces gives
\* the same outcome and next state as the bare lowercase letter, and every
\* input is handled (no input stops play).
C12_Original ==
    /\ [](error = "none" /\ pc # "raised")
    /\ [][pc = "got" =>
            \A l \in LowercaseChars : Dressed(input, l) => Turn(<<l>>)]_vars

\* C12 as amended: the same, for an uppercase letter whose str.lower() is one
\* character; U+0130, whose str.lower() is two characters, is rejected as
\* invalid input where "i" is a guess.
C12_NormalizedBeforeValidation ==
    /\ [](error = "none" /\ pc # "raised")
    /\ [][pc = "got" =>
            \A l \in LowercaseChars :
                (Dressed(input, l) /\ lower(strip(input)) = <<l>>)
                    => Turn(<<l>>)]_vars

C12_Witness ==
    /\ pc = "got"
    /\ input = <<" ", "A", " ">>
    /\ out = "prompt" /\ turns > 0
    /\ guessed_letters = {"b"}
    /\ Occurs("a", answer) /\ Occurs("b", answer)

\* C19 as stated: a turn that is not invalid input (a timeout, a repeat, a
\* wrong or a correct guess) strictly decreases lives + placeholders, an
\* invalid-input turn leaves it unchanged, and at most max_lives + (number
\* of distinct letters of the answer) turns that are not invalid are taken.
Measure == lives + NumPlaceholders(display_word)
DistinctLetters(s) == Cardinality({s[i] : i \in {j \in 1..Len(s) : s[j] \in AlphaChars}})

C19_Progress ==
    /\ [](max_lives >= 0 => turns <= max_lives + DistinctLetters(answer))
    /\ [][pc = "got" =>
            IF input = Deadline \/ OneLetter(input)
            THEN Measure' < Measure
            ELSE Measure' = Measure]_vars

\* C20: with max_lives >= 1 no reachable state is both won and lost; a turn
\* never both reveals a letter and costs a life; play ends won only after
\* a correct guess and lost only after a turn that cost a life.
C20_OutcomeUnambiguous ==
    /\ [](max_lives >= 1 => ~(is_won /\ is_lost))
    /\ [][pc = "got" =>
            ~(display_word' # display_word /\ lives' < lives)]_vars
    /\ [][(max_lives >= 1 /\ pc = "loop" /\ pc' = "done") =>
            /\ is_won => (out = "correct" /\ lives > 0)
            /\ ~is_won => (out \in {"time_up", "repeat", "wrong"} /\ lives = 0)]_vars

C20_Witness ==
    /\ pc = "done" /\ out = "congratulations"
    /\ lives = 1 /\ max_lives = 2
    /\ \E l \in guessed_letters : ~Occurs(l, answer)

(***************************************************************************)
(* Construction on its own: HangmanGame(max_lives, mode) with any pools    *)
(* that load_word_lists can have built from part of the corpora, the       *)
(* empty pools included.                                                   *)
(***************************************************************************)
InitConstruct ==
    /\ mode \in Modes
    /\ words \in SUBSET WORDS_LIST
    /\ brown_words \in SUBSET BROWN_WORDS
    /\ max_lives \in 0..MaxLives
    /\ error = "none"
    /\ turns = 0
    /\ ReaderIdle
    /\ answer = <<>>
    /\ display_word = <<>>
    /\ input = Idle
    /\ guessed_letters = {}
    /\ lives = 0
    /\ pc = "new"
    /\ out = "none"
    /\ timed_out = FALSE
    /\ submitted = {}
    /\ outcomes = 0

\* __init__: random.choice raises IndexError on an empty sequence
Construct ==
    /\ pc = "new"
    /\ lives' = max_lives
    /\ IF choose_from(mode, words, brown_words) = {}
       THEN /\ error' = "IndexError"
            /\ pc' = "raised"
            /\ UNCHANGED <<answer, display_word>>
       ELSE /\ answer' \in choose_from(mode, words, brown_words)
            /\ display_word' = init_display(answer')
            /\ pc' = "loop"
            /\ UNCHANGED error
    /\ UNCHANGED <<mode, guessed_letters, max_lives, input, out, timed_out,
                   submitted, outcomes, turns, words, brown_words>>
    /\ UNCHANGED readervars

NextConstruct == Construct

SpecConstruct == InitConstruct /\ [][NextConstruct]_vars

\* the pool the mode draws from
PoolOf(m) == IF m = "basic" THEN words ELSE brown_words

\* str.split(): the maximal runs of characters that are not whitespace
RECURSIVE split_from(_, _, _)
split_from(s, cur, acc) ==
    IF s = <<>>
    THEN IF cur = <<>> THEN acc ELSE Append(acc, cur)
    ELSE IF Head(s) \in SpaceChars
         THEN split_from(Tail(s), <<>>, IF cur = <<>> THEN acc ELSE Append(acc, cur))
         ELSE split_from(Tail(s), Append(cur, Head(s)), acc)

split(s) == split_from(s, <<>>, <<>>)

\* C13: with the pool of the selected mode empty, construction fails with a
\* NoCandidatesAvailable error before play begins and no session with an
\* answer is produced.
C13_EmptyPoolFails ==
    /\ (PoolOf(mode) = {} /\ pc # "new") =>
         /\ pc = "raised"
         /\ error = "NoCandidatesAvailable"
         /\ answer = <<>>
    /\ PoolOf(mode) # {} => error = "none"

\* C14: in single-word mode the answer is a member of the word pool, is
\* lowercase, and is at most MAX_WORD_LENGTH long.
C14_WordFromPool ==
    (mode = "basic" /\ pc = "loop") =>
        /\ words # {}
        /\ answer \in words
        /\ \A i \in 1..Len(answer) : answer[i] \in LowercaseChars
        /\ Len(answer) <= MAX_WORD_LENGTH

C14_Witness ==
    /\ mode = "basic" /\ pc = "loop"
    /\ answer = <<"a", "b", "a">>
    /\ Cardinality(words) = 2

\* C15: in phrase mode the answer splits on whitespace into 3 to 5 tokens,
\* each a member of the phrase-token pool, joined by exactly one space.
C15_PhraseFromPool ==
    (mode = "intermediate" /\ pc = "loop") =>
        LET toks == split(answer)
        IN  /\ brown_words # {}
            /\ 3 <= Len(toks) /\ Len(toks) <= 5
            /\ \A i \in 1..Len(toks) : toks[i] \in brown_words
            /\ answer = join(toks)

C15_Witness ==
    /\ mode = "intermediate" /\ pc = "loop"
    /\ Len(split(answer)) = 5
    /\ split(answer)[1] = <<"b", "a">> /\ split(answer)[5] = <<"a">>
    /\ Cardinality(brown_words) = 2

(***************************************************************************)
(* timed_input step by step.  Time is counted in ticks of 0.025 s; only    *)
(* time.sleep and select take time.  The POSIX terminal is in canonical    *)
(* mode (the program never changes it): it edits the line itself and       *)
(* stdin is readable only once the line is committed.  At most one key is  *)
(* pressed during one sleep or one select.                                 *)
(***************************************************************************)
\* the most keys on one line
MaxKeys == 2
\* the timeouts tried, in ticks: 0..MaxTimeout, and one over a second
MaxTimeout == 3

\* one second, time.sleep(0.05) and the 0.2 s of select, in ticks
SECOND == 40
SLEEP == 2
\* a faulty variant: select waits 0.4 s
SELECT_TIMEOUT_long == 2 * 8
SELECT_TIMEOUT == 8

BS == "BS"
CR == "CR"
NoKey == "NoKey"
KeyChars == {"a", " "}
Keys == KeyChars \cup {BS, CR}

Timeouts == (0..MaxTimeout) \cup {SECOND + 1}

\* int(max(0, end - time.time())), in seconds
Remaining == IF end - time > 0 THEN (end - time) \div SECOND ELSE 0

\* typed[:-1] for a backspace, typed + ch otherwise
EditLine(line, k) ==
    IF k = BS
    THEN IF line = <<>> THEN <<>> ELSE SubSeq(line, 1, Len(line) - 1)
    ELSE Append(line, k)

\* _render_timer_line: one line written to the terminal
Render(t, r) ==
    /\ dup' = (dup \/ shown = <<t, r>>)
    /\ shown' = <<t, r>>

\* the player still has a key to press in this call
CanType(pending) ==
    /\ ~Occurs(CR, entered)
    /\ Len(entered) < MaxKeys
    /\ Len(pending) < MaxKeys

InitReader ==
    /\ mode = "basic"
    /\ words = WORDS_LIST
    /\ brown_words = BROWN_WORDS
    /\ error = "none"
    /\ turns = 0
    /\ answer = <<"a", "b">>
    /\ display_word = init_display(answer)
    /\ input = Idle
    /\ guessed_letters = {}
    /\ max_lives = MaxLives
    /\ lives = max_lives
    /\ pc = "got"
    /\ out = "prompt"
    /\ timed_out = FALSE
    /\ submitted = {}
    /\ outcomes = 0
    /\ os_name \in {"nt", "posix"}
    /\ time = 0
    /\ end \in Timeouts
    /\ typed = <<>>
    /\ last_shown = -1
    /\ keys = <<>>
    /\ tty_line = <<>>
    /\ rpc = "idle"
    /\ result = Idle
    /\ returns = 0
    /\ shown = <<>>
    /\ dup = FALSE
    /\ entered = <<>>

\* timed_input is called: the locals are set; what the console or the
\* terminal still holds stays
Call ==
    /\ rpc \in {"idle", "returned"}
    /\ rpc' = "loop"
    /\ time' = 0
    /\ typed' = <<>>
    /\ last_shown' = -1
    /\ result' = Idle
    /\ returns' = 0
    /\ shown' = <<>>
    /\ dup' = FALSE
    /\ entered' = <<>>
    /\ UNCHANGED <<os_name, end, keys, tty_line>>
    /\ UNCHANGED gamevars
    /\ UNCHANGED poolvars
    /\ UNCHANGED turns

Return(v) ==
    /\ result' = v
    /\ returns' = returns + 1
    /\ rpc' = "returned"

\* one turn of the loop of _windows_timed_input, the sleep included; the
\* player may press a key during the sleep
WindowsStep ==
    /\ os_name = "nt" /\ rpc = "loop"
    /\ Render(typed, Remaining)
    /\ IF time >= end
       THEN /\ Return(None)
            /\ UNCHANGED <<time, typed, keys, entered>>
       ELSE IF keys # <<>> /\ Head(keys) = CR
       THEN /\ Return(strip(typed))
            /\ keys' = Tail(keys)
            /\ UNCHANGED <<time, typed, entered>>
       ELSE /\ typed' = IF keys = <<>> THEN typed ELSE EditLine(typed, Head(keys))
            /\ time' = time + SLEEP
            /\ LET rest == IF keys = <<>> THEN <<>> ELSE Tail(keys)
               IN  \E k \in Keys \cup {NoKey} :
                     IF k = NoKey \/ ~CanType(typed' \o rest)
                     THEN keys' = rest /\ UNCHANGED entered
                     ELSE keys' = Append(rest, k) /\ entered' = EditLine(entered, k)
            /\ UNCHANGED <<result, returns, rpc>>
    /\ UNCHANGED <<os_name, end, last_shown, tty_line>>
    /\ UNCHANGED gamevars
    /\ UNCHANGED poolvars
    /\ UNCHANGED turns

\* one turn of the loop of _posix_timed_input, the select included: either
\* no line is committed within the 0.2 s (the player may press one key that
\* is not Enter), or the player presses Enter d ticks into the wait, select
\* reports stdin readable and readline returns the terminal's line
PosixStep ==
    /\ os_name = "posix" /\ rpc = "loop"
    /\ IF Remaining # last_shown
       THEN Render(typed, Remaining) /\ last_shown' = Remaining
       ELSE UNCHANGED <<shown, dup, last_shown>>
    /\ IF time >= end
       THEN /\ Return(None)
            /\ UNCHANGED <<time, tty_line, entered>>
       ELSE \/ /\ time' = time + SELECT_TIMEOUT
               /\ \E k \in KeyChars \cup {BS, NoKey} :
                    IF k = NoKey \/ ~CanType(tty_line)
                    THEN UNCHANGED <<tty_line, entered>>
                    ELSE /\ tty_line' = EditLine(tty_line, k)
                         /\ entered' = EditLine(entered, k)
               /\ UNCHANGED <<result, returns, rpc>>
            \/ /\ ~Occurs(CR, entered)
               /\ \E d \in 1..SELECT_TIMEOUT : time' = time + d
               /\ entered' = Append(entered, CR)
               /\ tty_line' = <<>>
               /\ Return(strip(tty_line))
    /\ UNCHANGED <<os_name, end, typed, keys>>
    /\ UNCHANGED gamevars
    /\ UNCHANGED poolvars
    /\ UNCHANGED turns

NextReader == Call \/ WindowsStep \/ PosixStep

SpecReader == InitReader /\ [][NextReader]_vars

\* a call that has begun keeps running: the reader's loop is the only thing
\* the process does during the call
SpecReaderFair ==
    SpecReader /\ WF_vars(WindowsStep) /\ WF_vars(PosixStep)

\* the line the player entered in this call, without the Enter
EnteredLine == SelectSeq(entered, LAMBDA k : k # CR)

C17_LineOrNone ==
    rpc = "returned" =>
        /\ result # None => (Occurs(CR, entered) /\ result = strip(EnteredLine))
        /\ result = None => (time >= end /\ keys = <<>> /\ tty_line = <<>>)

\* C18: within a call the countdown line is rendered for the remaining
\* seconds the reader sees, and is never rendered again while the
\* remaining seconds and the typed text are what the last render showed.
C18_NoDuplicateRender ==
    /\ ~dup
    /\ rpc = "returned" => shown # <<>>
    /\ shown # <<>> => shown[2] - Remaining \in {0, 1}
    /\ (rpc = "returned" /\ result = None) => shown[2] = 0

====
